---- MODULE Spec2Model ----
(***************************************************************************)
(* The DirectDigital client of mbs-direct-digital-api, in its two          *)
(* revisions: src/lib/dd.js ("dd": one options object per method, string   *)
(* versions 'v1'/'v2') and src/unnamed/part_000 ("part": positional        *)
(* arguments, numeric versions).  A client instance is built once (Init);  *)
(* each public method is one action; the transport (the promisified        *)
(* `request` module) answers or fails the one request in flight, and the   *)
(* promise chain of the method settles in the same step.                   *)
(***************************************************************************)
EXTENDS Integers, Sequences, FiniteSets

VARIABLES
    rev,          \* which revision the instance is: "dd" or "part"
    config,       \* the options object the constructor was given
    host,         \* this.host
    apiVersion,   \* this.apiVersion
    trustedId,    \* this.trustedParterId (dd) / this.trustedPartnerId (part)
    pc,           \* "idle" | "pending" (request in flight) | "done"
    call,         \* the public method invoked and its arguments
    sent,         \* the requests handed to the transport by this invocation
    response,     \* what the transport answered to the request in flight
    result,       \* what the method returned / how its promise settled
    settles       \* how many times the returned promise has settled

vars == <<rev, config, host, apiVersion, trustedId, pc, call, sent, response, result, settles>>

-----------------------------------------------------------------------------
(* Bounds of the model *)

\* longest active / inactive product list in a response body
MaxCodes == 2
\* longest endpoint name (in characters) given to _buildApiUrl
MaxName == 2

-----------------------------------------------------------------------------
(* JavaScript values.  Numbers that stand for API versions and product     *)
(* codes are kept in tenths (Num(5) is 0.5, Num(10) is 1), so that the     *)
(* thresholds 0.6, 0.7 and 0.8 are integers.                               *)

Undefined == [t |-> "undefined", s |-> "", n |-> 0, a |-> <<>>]
Null == [t |-> "null", s |-> "", n |-> 0, a |-> <<>>]
NaN == [t |-> "number", s |-> "NaN", n |-> 0, a |-> <<>>]
Str(x) == [t |-> "string", s |-> x, n |-> 0, a |-> <<>>]
Num(k) == [t |-> "number", s |-> "", n |-> k, a |-> <<>>]
Bool(b) == [t |-> "boolean", s |-> "", n |-> IF b THEN 1 ELSE 0, a |-> <<>>]
Arr(q) == [t |-> "array", s |-> "", n |-> 0, a |-> q]
\* a parsed JSON object: the fields of a body the client ever reads
Obj(c, act, inact) == [t |-> "object", code |-> c, active |-> act, inactive |-> inact]

IsNaN(v) == v.t = "number" /\ v.s = "NaN"

\* ToBoolean
Truthy(v) ==
    CASE v.t = "undefined" -> FALSE
      [] v.t = "null" -> FALSE
      [] v.t = "boolean" -> v.n = 1
      [] v.t = "number" -> ~IsNaN(v) /\ v.n # 0
      [] v.t = "string" -> v.s # ""
      [] OTHER -> TRUE

\* a || b
Or(v, w) == IF Truthy(v) THEN v ELSE w

\* the string-to-number conversion, for the strings of the model
StringToNumber(x) ==
    CASE x = "" -> Num(0)
      [] x = "1" -> Num(10)
      [] x = "0.5" -> Num(5)
      [] x = "0.7" -> Num(7)
      [] x = "0.8" -> Num(8)
      [] OTHER -> NaN

\* ToNumber
ToNumber(v) ==
    CASE v.t = "number" -> v
      [] v.t = "string" -> StringToNumber(v.s)
      [] v.t = "boolean" -> Num(10 * v.n)
      [] v.t = "null" -> Num(0)
      [] OTHER -> NaN

\* a < b, a >= b on primitives of which one is a number
Less(v, w) ==
    LET x == ToNumber(v)
        y == ToNumber(w)
    IN  ~IsNaN(x) /\ ~IsNaN(y) /\ x.n < y.n

AtLeast(v, w) ==
    LET x == ToNumber(v)
        y == ToNumber(w)
    IN  ~IsNaN(x) /\ ~IsNaN(y) /\ x.n >= y.n

\* a === b on primitives
StrictEquals(v, w) ==
    /\ v.t = w.t
    /\ CASE v.t = "number" -> ~IsNaN(v) /\ ~IsNaN(w) /\ v.n = w.n
         [] v.t = "string" -> v.s = w.s
         [] v.t = "boolean" -> v.n = w.n
         [] OTHER -> TRUE

\* a == b on primitives
LooseEquals(v, w) ==
    LET nullish(x) == x.t \in {"undefined", "null"}
    IN  CASE v.t = w.t -> StrictEquals(v, w)
          [] nullish(v) \/ nullish(w) -> nullish(v) /\ nullish(w)
          [] OTHER -> StrictEquals(ToNumber(v), ToNumber(w))

-----------------------------------------------------------------------------
(* Text.  A string the client builds is a sequence of tokens: single       *)
(* characters where the code looks at characters ("/" and the letters of   *)
(* an endpoint), whole words elsewhere.                                    *)

DD_SERVICES_PATH == <<"/", "directdigital">>
XPLANA_SERVICES_PATH == <<"/", "xplana-platform-integration">>
SERVICES == <<"/", "services">>

Digit(d) == CASE d = 0 -> "0" [] d = 1 -> "1" [] d = 2 -> "2" [] d = 3 -> "3" [] d = 4 -> "4"
              [] d = 5 -> "5" [] d = 6 -> "6" [] d = 7 -> "7" [] d = 8 -> "8" [] d = 9 -> "9"

RECURSIVE IntToString(_)
IntToString(k) == IF k < 10 THEN Digit(k) ELSE IntToString(k \div 10) \o Digit(k % 10)

\* '' + v of a finite number kept in tenths
NumberToString(v) ==
    IntToString(v.n \div 10) \o (IF v.n % 10 = 0 THEN "" ELSE "." \o Digit(v.n % 10))

\* querystring.escape, for the strings of the model that hold a reserved character
escape(x) ==
    CASE x = "u@h" -> "u%40h"
      [] x = "100%" -> "100%25"
      [] x = "75%" -> "75%25"
      [] OTHER -> x

\* querystring's stringifyPrimitive: '' for anything but a string, a boolean or a finite number
stringifyPrimitive(v) ==
    CASE v.t = "string" -> v.s
      [] v.t = "boolean" -> IF v.n = 1 THEN "true" ELSE "false"
      [] v.t = "number" -> IF IsNaN(v) THEN "" ELSE NumberToString(v)
      [] OTHER -> ""

\* one key of querystring.stringify: an array gives the key once per element
RECURSIVE stringifyArray(_, _)
stringifyArray(k, q) ==
    IF q = <<>> THEN <<>>
    ELSE <<escape(k), "=", escape(stringifyPrimitive(Head(q)))>>
         \o (IF Tail(q) = <<>> THEN <<>> ELSE <<"&">> \o stringifyArray(k, Tail(q)))

stringifyKey(k, v) ==
    IF v.t = "array" THEN stringifyArray(k, v.a)
    ELSE <<escape(k), "=", escape(stringifyPrimitive(v))>>

\* querystring.stringify(qs): the keys in insertion order, joined by '&'
RECURSIVE stringify(_)
stringify(qs) ==
    IF qs = <<>> THEN <<>>
    ELSE stringifyKey(Head(qs).k, Head(qs).v)
         \o (IF Tail(qs) = <<>> THEN <<>> ELSE <<"&">> \o stringify(Tail(qs)))

\* url.resolve(from, to): a target that begins with "/" replaces the whole path of
\* `from`, whose first token is its scheme and authority; any other target replaces
\* the last segment of that path
RECURSIVE DirOf(_)
DirOf(p) == IF p = <<>> \/ p[Len(p)] = "/" THEN p ELSE DirOf(SubSeq(p, 1, Len(p) - 1))

resolve(from, to) ==
    IF to # <<>> /\ to[1] = "/" THEN <<from[1]>> \o to
    ELSE IF Len(from) = 1 THEN from \o <<"/">> \o to
    ELSE DirOf(from) \o to

-----------------------------------------------------------------------------
(* An object literal is a sequence of [k, v] pairs in insertion order *)

Pair(key, val) == [k |-> key, v |-> val]

HasKey(qs, key) == \E i \in 1..Len(qs) : qs[i].k = key

\* qs[key], undefined when the key is missing
Get(qs, key) ==
    IF HasKey(qs, key) THEN qs[CHOOSE i \in 1..Len(qs) : qs[i].k = key].v ELSE Undefined

\* qs[key] = val
Put(qs, key, val) ==
    IF HasKey(qs, key)
    THEN [i \in 1..Len(qs) |-> IF qs[i].k = key THEN Pair(key, val) ELSE qs[i]]
    ELSE Append(qs, Pair(key, val))

-----------------------------------------------------------------------------
(* The constructor *)

\* options = options || {}: a missing key reads as undefined
NoConfig == [apiVersion |-> Undefined, version |-> Undefined,
             trustedPartnerId |-> Undefined, trustedParterId |-> Undefined]

\* dd.js: the version defaults to 'v1'; the partner id is read from options.trustedParterId
dd_DirectDigital(h, options) ==
    [rev |-> "dd",
     apiVersion |-> Or(Or(options.apiVersion, options.version), Str("v1")),
     trustedId |-> Or(options.trustedParterId, Str("")),
     host |-> h]

\* part_000: the version defaults to 0.5; the partner id is read from options.trustedPartnerId
DirectDigital(h, options) ==
    [rev |-> "part",
     apiVersion |-> Or(Or(options.apiVersion, options.version), Num(5)),
     trustedId |-> Or(options.trustedPartnerId, Str("")),
     host |-> h]

-----------------------------------------------------------------------------
(* The private helpers *)

\* endpoint.substring(0, 1) != '/'  =>  endpoint = '/' + endpoint
substring(str, from, to) ==
    SubSeq(str, from + 1, IF to < Len(str) THEN to ELSE Len(str))

WithSlash(endpoint) ==
    IF substring(endpoint, 0, 1) # <<"/">> THEN <<"/">> \o endpoint ELSE endpoint

dd_buildApiUrl(self, endpoint, servicesPath) ==
    resolve(self.host, servicesPath \o SERVICES \o WithSlash(endpoint))

_buildApiUrl(self, endpoint, servicesPath) ==
    self.host \o servicesPath \o SERVICES \o WithSlash(endpoint)

buildApiUrl(self, endpoint, servicesPath) ==
    IF self.rev = "dd" THEN dd_buildApiUrl(self, endpoint, servicesPath)
    ELSE _buildApiUrl(self, endpoint, servicesPath)

\* what a call of a method comes to, synchronously: the value null, an exception, or a
\* promise behind one request handed to the transport
NoRequest == [method |-> "", url |-> <<>>, hasQs |-> FALSE, qs |-> <<>>,
              hasForm |-> FALSE, json |-> FALSE]
ReturnsNull == [kind |-> "null", req |-> NoRequest]
Throws == [kind |-> "throw", req |-> NoRequest]
Sends(options) == [kind |-> "send", req |-> options]

\* dd.js: options.qs.trustedPartnerID = ... with no options.qs (every POST) is a TypeError
dd_http(self, options) ==
    IF ~options.hasQs THEN Throws
    ELSE Sends([options EXCEPT !.json = TRUE,
                               !.qs = Put(options.qs, "trustedPartnerID", self.trustedId)])

\* part_000: options.qs = options.qs || {} first
_http(self, options) ==
    LET qs == IF options.hasQs THEN options.qs ELSE <<>>
    IN  Sends([options EXCEPT !.json = TRUE, !.hasQs = TRUE,
                              !.qs = Put(qs, "trustedPartnerID", self.trustedId)])

http(self, options) ==
    IF self.rev = "dd" THEN dd_http(self, options) ELSE _http(self, options)

_get(self, endpoint, servicesPath, qs) ==
    http(self, [method |-> "GET", url |-> buildApiUrl(self, endpoint, servicesPath),
                hasQs |-> TRUE, qs |-> qs, hasForm |-> FALSE, json |-> FALSE])

\* the query is serialised into the URL; `form` is the body, when the caller passes one
_post(self, endpoint, servicesPath, qs, hasForm) ==
    http(self, [method |-> "POST",
                url |-> buildApiUrl(self, endpoint, servicesPath) \o <<"?">> \o stringify(qs),
                hasQs |-> FALSE, qs |-> <<>>, hasForm |-> hasForm, json |-> FALSE])

isResponseSuccessful(statusCode) == statusCode >= 200 /\ statusCode < 300

-----------------------------------------------------------------------------
(* Arguments.  `a` is the bag of named arguments of a call: in dd.js it is *)
(* the one options object a method takes, in part_000 its fields are the   *)
(* positional arguments (customerId, userInfo, productCodes, ...) and the  *)
(* trailing options object.  A key the caller left out reads as undefined, *)
(* which is also what `options = options || {}` makes of a missing object. *)

NoArgs ==
    [t |-> "options",
     customerId |-> Undefined, productCodes |-> Undefined, productCode |-> Undefined,
     redeemCode |-> Undefined, email |-> Undefined, firstName |-> Undefined,
     lastName |-> Undefined, username |-> Undefined, remote |-> Undefined,
     emptyMode |-> Undefined, width |-> Undefined, height |-> Undefined,
     doCountActive |-> Undefined, doCountInactive |-> Undefined]

\* x.customerId: undefined on a primitive such as a string
customerIdOf(x) == IF x.t = "options" THEN x.customerId ELSE Undefined

-----------------------------------------------------------------------------
(* The public methods: what each hands to _get / _post *)

deactivateUserProducts(self, a) ==
    _post(self, <<"/", "deactivateUserProducts">>, XPLANA_SERVICES_PATH,
          <<Pair("customerID", a.customerId), Pair("productCode", a.productCodes)>>,
          self.rev = "part")

fulfillProducts(self, a) ==
    _post(self, <<"/", "fulfillProducts">>, XPLANA_SERVICES_PATH,
          <<Pair("customerid", a.customerId),
            Pair("userinfovo.email", a.email),
            Pair("userinfovo.firstname", a.firstName),
            Pair("userinfovo.lastname", a.lastName),
            Pair("userinfovo.username", a.username),
            Pair("productCode", a.productCodes)>>,
          FALSE)

generateMobileKey(self, a) ==
    _get(self, <<"/", "generateMobileKey">>, XPLANA_SERVICES_PATH,
         <<Pair("customerID", a.customerId)>>)

redeemQuery(a) ==
    <<Pair("customerID", a.customerId),
      Pair("userinfovo.email", a.email),
      Pair("userinfovo.firstname", a.firstName),
      Pair("userinfovo.lastname", a.lastName),
      Pair("userinfovo.username", a.username),
      Pair("redeemCode", a.redeemCode)>>

\* dd.js: gated by apiVersion != 'v2'; a GET
dd_redeemCodeFromBookstore(self, a) ==
    IF ~LooseEquals(self.apiVersion, Str("v2")) THEN ReturnsNull
    ELSE _get(self, <<"/", "redeemCodeFromBookStore">>, DD_SERVICES_PATH, redeemQuery(a))

\* part_000: gated by apiVersion < 0.6; a POST
redeemCodeFromBookstore(self, a) ==
    IF Less(self.apiVersion, Num(6)) THEN ReturnsNull
    ELSE _post(self, <<"/", "redeemCodeFromBookStore">>, DD_SERVICES_PATH, redeemQuery(a), TRUE)

\* part_000 only
renewProduct(self, a) ==
    IF Less(self.apiVersion, Num(8)) THEN ReturnsNull
    ELSE _post(self, <<"/", "renewProducts">>, XPLANA_SERVICES_PATH,
               <<Pair("customerID", a.customerId), Pair("productCode", a.productCodes)>>,
               TRUE)

embedQuery(a) ==
    <<Pair("customerID", a.customerId),
      Pair("email", a.email),
      Pair("firstname", a.firstName),
      Pair("lastname", a.lastName),
      Pair("username", a.username)>>

retrieveEmbedCodeV1(self, a) ==
    _get(self, <<"/", "retrieveEmbedCode">>, XPLANA_SERVICES_PATH, embedQuery(a))

\* the V2 query, were width to default to the empty string
embedQueryV2_noWidth(a) ==
    embedQuery(a) \o
    <<Pair("remote", Or(a.remote, Bool(FALSE))),
      Pair("emptyMode", Or(a.emptyMode, Bool(FALSE))),
      Pair("width", Or(a.width, Str(""))),
      Pair("height", Or(a.height, Str("100%")))>>

embedQueryV2(a) ==
    embedQuery(a) \o
    <<Pair("remote", Or(a.remote, Bool(FALSE))),
      Pair("emptyMode", Or(a.emptyMode, Bool(FALSE))),
      Pair("width", Or(a.width, Str("100%"))),
      Pair("height", Or(a.height, Str("100%")))>>

\* dd.js: not gated
dd_retrieveEmbedCodeV2(self, a) ==
    _get(self, <<"/", "retrieveEmbedCode">>, DD_SERVICES_PATH, embedQueryV2(a))

\* part_000: gated by apiVersion < 0.8
retrieveEmbedCodeV2(self, a) ==
    IF Less(self.apiVersion, Num(8)) THEN ReturnsNull
    ELSE _get(self, <<"/", "retrieveEmbedCode">>, DD_SERVICES_PATH, embedQueryV2(a))

\* dd.js: switch (this.apiVersion) { case 'v1': V1; case 'v2': V2; default: null }
dd_retrieveEmbedCode(self, a) ==
    CASE StrictEquals(self.apiVersion, Str("v1")) -> retrieveEmbedCodeV1(self, a)
      [] StrictEquals(self.apiVersion, Str("v2")) -> dd_retrieveEmbedCodeV2(self, a)
      [] OTHER -> ReturnsNull

\* part_000: V2 from 0.8 on, V1 otherwise
retrieveEmbedCode(self, a) ==
    IF AtLeast(self.apiVersion, Num(8)) THEN retrieveEmbedCodeV2(self, a)
    ELSE retrieveEmbedCodeV1(self, a)

\* part_000 only
retrieveIntegratedEmbedCode(self, a) ==
    IF Less(self.apiVersion, Num(7)) THEN ReturnsNull
    ELSE _post(self, <<"/", "retrieveIntegratedEmbedCode">>, XPLANA_SERVICES_PATH,
               embedQuery(a) \o <<Pair("remote", a.remote)>>, TRUE)

retrieveProducts(self) ==
    _get(self, <<"/", "retrieveProducts">>, XPLANA_SERVICES_PATH, <<>>)

\* dd.js: takes an options object and reads its customerId
dd_retrieveUserProducts(self, options) ==
    _get(self, <<"/", "retrieveUserProducts">>, XPLANA_SERVICES_PATH,
         <<Pair("customerID", customerIdOf(options))>>)

\* part_000: takes the customer id
retrieveUserProducts(self, customerId) ==
    _get(self, <<"/", "retrieveUserProducts">>, XPLANA_SERVICES_PATH,
         <<Pair("customerID", customerId)>>)

verifyProducts(self, a) ==
    _post(self, <<"/", "verifyProducts">>, XPLANA_SERVICES_PATH,
          <<Pair("productCode", a.productCodes)>>, self.rev = "part")

\* dd.js: this.retrieveUserProducts(options.customerId)
dd_getUserProductCount(self, options) == dd_retrieveUserProducts(self, options.customerId)

\* part_000: this.retrieveUserProducts(customerId)
getUserProductCount(self, customerId, options) == retrieveUserProducts(self, customerId)

dd_isProductFulfilled(self, options) == dd_retrieveUserProducts(self, options.customerId)

isProductFulfilled(self, customerId, productCode) == retrieveUserProducts(self, customerId)

\* the options isUser builds: dd.js puts the username in them, part_000 passes it on
dd_isUserOptions(username) ==
    [NoArgs EXCEPT !.username = username,
                   !.doCountActive = Bool(TRUE), !.doCountInactive = Bool(TRUE)]

isUserOptions == [NoArgs EXCEPT !.doCountActive = Bool(TRUE), !.doCountInactive = Bool(TRUE)]

dd_isUser(self, username) == dd_getUserProductCount(self, dd_isUserOptions(username))

isUser(self, username) == getUserProductCount(self, username, isUserOptions)

\* dd.js only.  checkWebStatus is a plain function that reads this.host: `thisArg` is
\* what `this` is bound to in it, and reading a property of undefined is a TypeError
checkWebStatus(thisArg) ==
    IF thisArg.t = "undefined" THEN Throws
    ELSE Sends([NoRequest EXCEPT !.method = "GET", !.url = thisArg.host])

\* checkStatus calls checkWebStatus() unbound, in strict mode
checkStatus(self) == checkWebStatus(Undefined)

-----------------------------------------------------------------------------
(* Settling.  A promise resolves with a value or rejects with an error.    *)

NoError == [name |-> "", message |-> <<>>, meta |-> Undefined]
TypeError == [name |-> "TypeError", message |-> <<>>, meta |-> Undefined]
\* what the promisified request rejects with on a network-level failure
TransportError == [name |-> "TransportError", message |-> <<>>, meta |-> Undefined]

Resolved(v) == [kind |-> "resolved", value |-> v, error |-> NoError]
Rejected(e) == [kind |-> "rejected", value |-> Undefined, error |-> e]

\* util.format('%d - %s failed', statusCode, url)
fmt(statusCode, url) == <<IntToString(statusCode), " - ">> \o url \o <<" failed">>

\* isBodySuccessful, were it to take any body it can read for a success
isBodySuccessful_ignoresCode(body) ==
    IF body.t \in {"undefined", "null"} THEN "TypeError" ELSE "true"

\* !body.code: reading a property of null or undefined is a TypeError
isBodySuccessful(body) ==
    IF body.t \in {"undefined", "null"} THEN "TypeError"
    ELSE IF body.t = "object" /\ Truthy(body.code) THEN "false"
    ELSE "true"

\* the .spread callback of _http: || does not look at the body of a non-2xx response
httpSpread(options, statusCode, body) ==
    LET err == [name |-> "Error", message |-> fmt(statusCode, options.url), meta |-> body]
    IN  IF ~isResponseSuccessful(statusCode) THEN Rejected(err)
        ELSE CASE isBodySuccessful(body) = "TypeError" -> Rejected(TypeError)
               [] isBodySuccessful(body) = "false" -> Rejected(err)
               [] OTHER -> Resolved(body)

\* body.active, body.inactive of a body that got past isBodySuccessful
activeOf(body) == IF body.t = "object" THEN body.active ELSE Undefined
inactiveOf(body) == IF body.t = "object" THEN body.inactive ELSE Undefined

\* a count as a JavaScript number (numbers are kept in tenths)
Count(k) == Num(10 * k)

\* the callback of getUserProductCount, were it to count the inactive list whatever
\* doCountInactive says
countThen_countsInactive(options, body) ==
    IF \/ Truthy(options.doCountActive) /\ activeOf(body).t # "array"
       \/ inactiveOf(body).t # "array"
    THEN Rejected(TypeError)
    ELSE Resolved(Count((IF Truthy(options.doCountActive) THEN Len(activeOf(body).a) ELSE 0)
                        + Len(inactiveOf(body).a)))

\* the .then callback of getUserProductCount; .length of undefined is a TypeError
countThen(options, body) ==
    LET doActive == Truthy(options.doCountActive)
        doInactive == Truthy(options.doCountInactive)
    IN  IF \/ doActive /\ activeOf(body).t # "array"
           \/ doInactive /\ inactiveOf(body).t # "array"
        THEN Rejected(TypeError)
        ELSE Resolved(Count((IF doActive THEN Len(activeOf(body).a) ELSE 0)
                            + (IF doInactive THEN Len(inactiveOf(body).a) ELSE 0)))

\* fulfilled = fulfilled || (activeProductCode == productCode), over body.active
RECURSIVE anyLooseEqual(_, _)
anyLooseEqual(q, productCode) ==
    IF q = <<>> THEN FALSE
    ELSE LooseEquals(Head(q), productCode) \/ anyLooseEqual(Tail(q), productCode)

\* the .then callback of isProductFulfilled; _.forEach skips a missing list
fulfilledThen(productCode, body) ==
    Resolved(Bool(anyLooseEqual(activeOf(body).a, productCode)))

\* the .then callback of isUser
isUserThen(count) == Resolved(Bool(count.n > 0))

\* the .then callback of checkStatus
checkStatusThen(webStatus, elapsed) ==
    Resolved([t |-> "status", online |-> webStatus, web |-> webStatus,
              latency |-> <<IntToString(elapsed), "ms">>])

\* how the promise the method returned settles once the transport has answered
\* (answer.kind = "answer") or failed (answer.kind = "failure") the request; a .then
\* callback runs on the value its promise resolved with, a rejection passes through
Settle(c, req, answer) ==
    LET settled == IF answer.kind = "failure" THEN Rejected(TransportError)
                   ELSE httpSpread(req, answer.statusCode, answer.body)
        userOptions == IF c.rev = "dd" THEN dd_isUserOptions(c.a.username) ELSE isUserOptions
        userCount == IF settled.kind = "resolved" THEN countThen(userOptions, settled.value)
                     ELSE settled
    IN  CASE c.op = "getUserProductCount" ->
                IF settled.kind = "resolved" THEN countThen(c.a, settled.value) ELSE settled
          [] c.op = "isProductFulfilled" ->
                IF settled.kind = "resolved" THEN fulfilledThen(c.a.productCode, settled.value)
                ELSE settled
          [] c.op = "isUser" ->
                IF userCount.kind = "resolved" THEN isUserThen(userCount.value) ELSE userCount
          [] c.op = "checkStatus" ->
                checkStatusThen(Bool(answer.kind = "answer"), answer.elapsed)
          [] OTHER -> settled

-----------------------------------------------------------------------------
(* The inputs of the model *)

Revisions == {"dd", "part"}

HostBare == <<"http://h">>
HostSlash == <<"http://h", "/">>
HostPath == <<"http://h", "/", "base">>
Hosts == {HostBare, HostSlash, HostPath}

\* what the caller configures as apiVersion: nothing, a number, a numeric string, or
\* one of the version names of dd.js
Versions == {Undefined, Num(7), Num(8), Str("0.7"), Str("v1"), Str("v2")}

VersionConfigs ==
    {[NoConfig EXCEPT !.apiVersion = v] : v \in Versions}
    \cup {[NoConfig EXCEPT !.version = Num(8)],
          [NoConfig EXCEPT !.apiVersion = Num(7), !.version = Num(8)]}

Configs ==
    {[c EXCEPT !.trustedPartnerId = p] : c \in VersionConfigs, p \in {Undefined, Str("P1")}}
    \cup {[c EXCEPT !.trustedParterId = Str("P2")] : c \in VersionConfigs}

CustomerIds == {Str("c1"), Str("c2")}

\* the user-info fields every call that takes userInfo is given
WithUser(a) ==
    [a EXCEPT !.email = Str("u@h"), !.firstName = Str("F"),
              !.lastName = Str("L"), !.username = Str("u")]

ProductCodeArgs == {Arr(<<Str("A")>>), Arr(<<Str("A"), Str("B")>>)}

\* the product code asked of isProductFulfilled
ProductCodes == {Str("A"), Str("a"), Str("1"), Num(10)}

\* the codes a response lists as active
ActiveCodes == {Str("A"), Str("1"), Num(10)}

\* the options of retrieveEmbedCode(V2): each left out, given a falsy value, or a truthy one
EmbedOptions ==
    {NoArgs,
     [NoArgs EXCEPT !.remote = Bool(TRUE), !.emptyMode = Bool(TRUE),
                    !.width = Str("75%"), !.height = Str("50px")],
     [NoArgs EXCEPT !.remote = Bool(FALSE), !.width = Str("")],
     [NoArgs EXCEPT !.emptyMode = Bool(FALSE), !.height = Num(0)],
     [NoArgs EXCEPT !.remote = Str("yes"), !.height = Str("75%")]}

CountFlags == {Undefined, Bool(TRUE), Bool(FALSE)}

\* the sequences over S of length at most n
RECURSIVE SeqsUpTo(_, _)
SeqsUpTo(S, n) ==
    IF n = 0 THEN {<<>>}
    ELSE SeqsUpTo(S, n - 1) \cup {Append(q, x) : q \in SeqsUpTo(S, n - 1), x \in S}

Names == SeqsUpTo({"x", "y"}, MaxName)
Endpoints == {e : e \in Names \cup {<<"/">> \o n : n \in Names}}

ListsOf(S) == SeqsUpTo(S, MaxCodes)

ListBodies ==
    {Obj(Undefined, act, inact) :
        act \in {Undefined} \cup {Arr(q) : q \in ListsOf(ActiveCodes)},
        inact \in {Undefined} \cup {Arr(q) : q \in ListsOf({Str("B")})}}

CodeBodies ==
    {Obj(c, Undefined, Undefined) : c \in {Num(0), Str(""), Null, Str("E"), Num(50)}}
    \cup {Obj(Str("E"), Arr(<<Str("A")>>), Arr(<<Str("B")>>))}

\* with json: true the body is the parsed JSON, undefined when there was none, the raw
\* text when it did not parse
PlainBodies == {Undefined, Null, Str("")}

Bodies == {b : b \in PlainBodies \cup CodeBodies \cup ListBodies}

StatusCodes == {199, 200, 204, 299, 300}

NoResponse == [kind |-> "none", statusCode |-> 0, body |-> Undefined, elapsed |-> 0]

\* every status with every body
AllAnswers ==
    {[kind |-> "answer", statusCode |-> sc, body |-> b, elapsed |-> 0] :
        sc \in StatusCodes, b \in Bodies}

\* a small repertoire of answers: a success with lists, an application failure, no body
FewAnswers ==
    {[kind |-> "answer", statusCode |-> sc, body |-> b, elapsed |-> 0] :
        sc \in {200, 404},
        b \in {Obj(Undefined, Arr(<<Str("A")>>), Arr(<<>>)), Obj(Str("E"), Undefined, Undefined)}}

-----------------------------------------------------------------------------
(* The state machine *)

Self == [rev |-> rev, host |-> host, apiVersion |-> apiVersion, trustedId |-> trustedId]

Construct(r, h, options) ==
    IF r = "dd" THEN dd_DirectDigital(h, options) ELSE DirectDigital(h, options)

NoCall == [op |-> "", rev |-> "", a |-> NoArgs, endpoint |-> <<>>, servicesPath |-> <<>>]
NoResult == [kind |-> "none", value |-> Undefined, error |-> NoError]

InitOver(Cs, Hs) ==
    /\ rev \in Revisions
    /\ config \in Cs
    /\ host \in Hs
    /\ apiVersion = Construct(rev, host, config).apiVersion
    /\ trustedId = Construct(rev, host, config).trustedId
    /\ pc = "idle"
    /\ call = NoCall
    /\ sent = <<>>
    /\ response = NoResponse
    /\ result = NoResult
    /\ settles = 0

\* a call of a public method: it returns null, throws, or hands one request to the
\* transport and returns the promise of its answer
Invoke(op, a, ret) ==
    /\ pc = "idle"
    /\ call' = [NoCall EXCEPT !.op = op, !.rev = rev, !.a = a]
    /\ response' = NoResponse
    /\ settles' = 0
    /\ sent' = IF ret.kind = "send" THEN <<ret.req>> ELSE <<>>
    /\ pc' = IF ret.kind = "send" THEN "pending" ELSE "done"
    /\ result' = CASE ret.kind = "send" -> [NoResult EXCEPT !.kind = "pending"]
                   [] ret.kind = "null" -> [NoResult EXCEPT !.kind = "null"]
                   [] OTHER -> [NoResult EXCEPT !.kind = "thrown", !.error = TypeError]
    /\ UNCHANGED <<rev, config, host, apiVersion, trustedId>>

DeactivateUserProducts ==
    \E c \in CustomerIds, p \in ProductCodeArgs :
        LET a == [NoArgs EXCEPT !.customerId = c, !.productCodes = p]
        IN  Invoke("deactivateUserProducts", a, deactivateUserProducts(Self, a))

FulfillProducts ==
    \E c \in CustomerIds, p \in ProductCodeArgs :
        LET a == WithUser([NoArgs EXCEPT !.customerId = c, !.productCodes = p])
        IN  Invoke("fulfillProducts", a, fulfillProducts(Self, a))

GenerateMobileKey ==
    \E c \in CustomerIds :
        LET a == [NoArgs EXCEPT !.customerId = c]
        IN  Invoke("generateMobileKey", a, generateMobileKey(Self, a))

GetUserProductCount ==
    \E c \in CustomerIds, f \in CountFlags, g \in CountFlags :
        LET a == [NoArgs EXCEPT !.customerId = c, !.doCountActive = f, !.doCountInactive = g]
        IN  Invoke("getUserProductCount", a,
                   IF rev = "dd" THEN dd_getUserProductCount(Self, a)
                   ELSE getUserProductCount(Self, a.customerId, a))

IsProductFulfilled ==
    \E c \in CustomerIds, p \in ProductCodes :
        LET a == [NoArgs EXCEPT !.customerId = c, !.productCode = p]
        IN  Invoke("isProductFulfilled", a,
                   IF rev = "dd" THEN dd_isProductFulfilled(Self, a)
                   ELSE isProductFulfilled(Self, a.customerId, a.productCode))

IsUser ==
    \E c \in CustomerIds :
        LET a == [NoArgs EXCEPT !.username = c]
        IN  Invoke("isUser", a,
                   IF rev = "dd" THEN dd_isUser(Self, a.username) ELSE isUser(Self, a.username))

RedeemCodeFromBookstore ==
    \E c \in CustomerIds :
        LET a == WithUser([NoArgs EXCEPT !.customerId = c, !.redeemCode = Str("R")])
        IN  Invoke("redeemCodeFromBookstore", a,
                   IF rev = "dd" THEN dd_redeemCodeFromBookstore(Self, a)
                   ELSE redeemCodeFromBookstore(Self, a))

RenewProduct ==
    /\ rev = "part"
    /\ \E c \in CustomerIds, p \in ProductCodeArgs :
        LET a == [NoArgs EXCEPT !.customerId = c, !.productCodes = p]
        IN  Invoke("renewProduct", a, renewProduct(Self, a))

RetrieveEmbedCode ==
    \E c \in CustomerIds, o \in EmbedOptions :
        LET a == WithUser([o EXCEPT !.customerId = c])
        IN  Invoke("retrieveEmbedCode", a,
                   IF rev = "dd" THEN dd_retrieveEmbedCode(Self, a)
                   ELSE retrieveEmbedCode(Self, a))

RetrieveEmbedCodeV1 ==
    \E c \in CustomerIds :
        LET a == WithUser([NoArgs EXCEPT !.customerId = c])
        IN  Invoke("retrieveEmbedCodeV1", a, retrieveEmbedCodeV1(Self, a))

RetrieveEmbedCodeV2 ==
    \E c \in CustomerIds, o \in EmbedOptions :
        LET a == WithUser([o EXCEPT !.customerId = c])
        IN  Invoke("retrieveEmbedCodeV2", a,
                   IF rev = "dd" THEN dd_retrieveEmbedCodeV2(Self, a)
                   ELSE retrieveEmbedCodeV2(Self, a))

RetrieveIntegratedEmbedCode ==
    /\ rev = "part"
    /\ \E c \in CustomerIds, r \in {Bool(TRUE), Bool(FALSE)} :
        LET a == WithUser([NoArgs EXCEPT !.customerId = c, !.remote = r])
        IN  Invoke("retrieveIntegratedEmbedCode", a, retrieveIntegratedEmbedCode(Self, a))

RetrieveProducts == Invoke("retrieveProducts", NoArgs, retrieveProducts(Self))

RetrieveUserProducts ==
    \E c \in CustomerIds :
        LET a == [NoArgs EXCEPT !.customerId = c]
        IN  Invoke("retrieveUserProducts", a,
                   IF rev = "dd" THEN dd_retrieveUserProducts(Self, a)
                   ELSE retrieveUserProducts(Self, a.customerId))

VerifyProducts ==
    \E p \in ProductCodeArgs :
        LET a == [NoArgs EXCEPT !.productCodes = p]
        IN  Invoke("verifyProducts", a, verifyProducts(Self, a))

CheckStatus ==
    /\ rev = "dd"
    /\ Invoke("checkStatus", NoArgs, checkStatus(Self))

\* _buildApiUrl called on the instance with any endpoint: it returns the URL
BuildApiUrl ==
    /\ pc = "idle"
    /\ \E e \in Endpoints, sp \in {DD_SERVICES_PATH, XPLANA_SERVICES_PATH} :
        /\ call' = [NoCall EXCEPT !.op = "_buildApiUrl", !.rev = rev,
                                  !.endpoint = e, !.servicesPath = sp]
        /\ result' = [NoResult EXCEPT !.kind = "returned",
                                      !.value = [t |-> "text", tokens |-> buildApiUrl(Self, e, sp)]]
    /\ pc' = "done"
    /\ sent' = <<>>
    /\ response' = NoResponse
    /\ settles' = 0
    /\ UNCHANGED <<rev, config, host, apiVersion, trustedId>>

\* the transport answers the request in flight, and the promise chain runs
Respond(answers) ==
    /\ pc = "pending"
    /\ \E r \in answers :
        /\ response' = r
        /\ result' = Settle(call, sent[1], r)
    /\ settles' = settles + 1
    /\ pc' = "done"
    /\ UNCHANGED <<rev, config, host, apiVersion, trustedId, call, sent>>

\* the transport fails the request in flight (DNS, connect, timeout)
Fail ==
    /\ pc = "pending"
    /\ response' = [NoResponse EXCEPT !.kind = "failure"]
    /\ result' = Settle(call, sent[1], response')
    /\ settles' = settles + 1
    /\ pc' = "done"
    /\ UNCHANGED <<rev, config, host, apiVersion, trustedId, call, sent>>

\* the caller is done with the result; the instance is ready for the next call
Return ==
    /\ pc = "done"
    /\ pc' = "idle"
    /\ call' = NoCall
    /\ sent' = <<>>
    /\ response' = NoResponse
    /\ result' = NoResult
    /\ settles' = 0
    /\ UNCHANGED <<rev, config, host, apiVersion, trustedId>>

Methods ==
    \/ DeactivateUserProducts
    \/ FulfillProducts
    \/ GenerateMobileKey
    \/ GetUserProductCount
    \/ IsProductFulfilled
    \/ IsUser
    \/ RedeemCodeFromBookstore
    \/ RenewProduct
    \/ RetrieveEmbedCode
    \/ RetrieveEmbedCodeV1
    \/ RetrieveEmbedCodeV2
    \/ RetrieveIntegratedEmbedCode
    \/ RetrieveProducts
    \/ RetrieveUserProducts
    \/ VerifyProducts
    \/ CheckStatus

\* every configuration, a small repertoire of answers
Init == InitOver(Configs, {HostBare})
Next == Methods \/ Respond(FewAnswers) \/ Fail \/ Return
Spec == Init /\ [][Next]_vars

\* the default configuration and one that no method is gated out of, every answer
InitResponses == InitOver({NoConfig, [NoConfig EXCEPT !.apiVersion = Str("v2")]}, {HostBare})
NextResponses == Methods \/ Respond(AllAnswers) \/ Fail \/ Return
SpecResponses == InitResponses /\ [][NextResponses]_vars

\* every host, _buildApiUrl alone
InitUrl == InitOver({NoConfig}, Hosts)
NextUrl == BuildApiUrl \/ Return
SpecUrl == InitUrl /\ [][NextUrl]_vars

-----------------------------------------------------------------------------
(* What the properties below speak of *)

\* the methods that return the promise of _http as it is
DirectOps ==
    {"deactivateUserProducts", "fulfillProducts", "generateMobileKey",
     "redeemCodeFromBookstore", "renewProduct", "retrieveEmbedCode", "retrieveEmbedCodeV1",
     "retrieveEmbedCodeV2", "retrieveIntegratedEmbedCode", "retrieveProducts",
     "retrieveUserProducts", "verifyProducts"}

CompositeOps == {"getUserProductCount", "isProductFulfilled", "isUser"}

GatedOps ==
    {"redeemCodeFromBookstore", "retrieveIntegratedEmbedCode", "renewProduct",
     "retrieveEmbedCodeV2"}

Answered == pc = "done" /\ response.kind = "answer"

StatusIn2xx == response.statusCode >= 200 /\ response.statusCode < 300

BodyHasTruthyCode == response.body.t = "object" /\ Truthy(response.body.code)

\* the lists of the answered body, empty when the body has none
ListOf(v) == IF v.t = "array" THEN v.a ELSE <<>>
AnsweredActive == IF response.body.t = "object" THEN ListOf(response.body.active) ELSE <<>>
AnsweredInactive == IF response.body.t = "object" THEN ListOf(response.body.inactive) ELSE <<>>

-----------------------------------------------------------------------------
(* C1 *)

\* C1: every request handed to the transport, GET or POST, carries the query parameter
\* trustedPartnerID, equal to the trustedPartnerId the constructor was configured with.
C1_TrustedPartnerOnEveryRequest ==
    \A i \in 1..Len(sent) :
        /\ sent[i].hasQs
        /\ HasKey(sent[i].qs, "trustedPartnerID")
        /\ config.trustedPartnerId.t = "string"
              => Get(sent[i].qs, "trustedPartnerID") = config.trustedPartnerId

-----------------------------------------------------------------------------
(* C2 *)

\* C2: a response whose status is outside [200,300), or whose body carries a truthy
\* code whatever the status, rejects the promise of the method with an error whose
\* message is "<statusCode> - <url> failed" and whose meta is the response body.
C2_FailureRejects ==
    (Answered /\ (~StatusIn2xx \/ BodyHasTruthyCode))
        => /\ result.kind = "rejected"
           /\ result.error.name = "Error"
           /\ result.error.message
                = <<IntToString(response.statusCode), " - ">> \o sent[1].url \o <<" failed">>
           /\ result.error.meta = response.body

\* a 200 whose body carries a truthy code has rejected a composite method
C2_Witness ==
    /\ Answered
    /\ call.op = "getUserProductCount"
    /\ response.statusCode = 200
    /\ response.body = Obj(Str("E"), Arr(<<Str("A")>>), Arr(<<Str("B")>>))
    /\ result.kind = "rejected"
    /\ result.error.meta = response.body

-----------------------------------------------------------------------------
(* C3 *)

\* C3: a response whose status is in [200,300) and whose body has no truthy code,
\* a null or absent body included, resolves the promise of the method with the body
\* unchanged.
C3_SuccessResolvesWithBody ==
    (Answered /\ call.op \in DirectOps /\ StatusIn2xx /\ ~BodyHasTruthyCode)
        => /\ result.kind = "resolved"
           /\ result.value = response.body

-----------------------------------------------------------------------------
(* C4 *)

\* The versions as one ordinal, in tenths: a number or numeric string is its value;
\* 'v1', the default of dd.js, is the lowest version, as the default 0.5 of part_000
\* is; 'v2' is the version of the V2 operations, 0.8.
VersionRank(v) ==
    CASE v.t = "string" /\ v.s = "v1" -> 5
      [] v.t = "string" /\ v.s = "v2" -> 8
      [] OTHER -> ToNumber(v).n

\* the least version a gated method needs: 'v2' in dd.js, 0.6 / 0.7 / 0.8 in part_000
VersionGate(r, op) ==
    CASE r = "dd" -> 8
      [] op = "redeemCodeFromBookstore" -> 6
      [] op = "retrieveIntegratedEmbedCode" -> 7
      [] OTHER -> 8

\* C4: a version-gated method called on a client whose version is below the method's
\* threshold returns null and makes no transport call; it makes a transport call only
\* when the version is at or above the threshold.
C4_GatedBelowThreshold ==
    (pc # "idle" /\ call.op \in GatedOps)
        => /\ VersionRank(apiVersion) < VersionGate(rev, call.op)
                => result.kind = "null" /\ sent = <<>>
           /\ sent # <<>> => VersionRank(apiVersion) >= VersionGate(rev, call.op)

-----------------------------------------------------------------------------
(* C5 *)

\* C5: every invocation of a method that goes through _http and is not gated out by
\* version, the POST methods and the composites included, makes exactly one transport
\* call and its promise settles exactly once; none ends without a call by throwing.
\* (checkStatus, which does not go through _http, is the subject of C6.)
C5_ExactlyOneCall ==
    (call.op \in DirectOps \cup CompositeOps /\ result.kind # "null")
        => /\ Len(sent) = 1
           /\ pc = "pending" => settles = 0
           /\ pc = "done" => settles = 1 /\ result.kind \in {"resolved", "rejected"}

-----------------------------------------------------------------------------
(* C6 *)

\* C6: checkStatus never fails: it neither throws nor rejects; when the transport
\* rejects it resolves with online and subsystems.web false, when the transport
\* answers with both true, and with a latency "<n>ms" in either case.
C6_CheckStatusNeverFails ==
    (call.op = "checkStatus" /\ pc = "done")
        => /\ result.kind = "resolved"
           /\ result.value.t = "status"
           /\ result.value.online = Bool(response.kind = "answer")
           /\ result.value.web = Bool(response.kind = "answer")
           /\ Len(result.value.latency) = 2 /\ result.value.latency[2] = "ms"

-----------------------------------------------------------------------------
(* C7 *)

\* C7: isProductFulfilled resolves true if and only if the product code is an exact
\* element (same value and same type) of the active list of the body, and false
\* when the list is empty or holds only values that differ in type or value.
C7_FulfilledIffExactElement ==
    (Answered /\ call.op = "isProductFulfilled" /\ result.kind = "resolved")
        => result.value
             = Bool(\E i \in 1..Len(AnsweredActive) :
                       StrictEquals(AnsweredActive[i], call.a.productCode))

-----------------------------------------------------------------------------
(* C8 *)

\* the body answered is a success that carries both lists
AnsweredLists ==
    /\ Answered /\ StatusIn2xx /\ ~BodyHasTruthyCode
    /\ response.body.t = "object"
    /\ response.body.active.t = "array"
    /\ response.body.inactive.t = "array"

\* C8: getUserProductCount resolves with the sum of the lengths of exactly the lists
\* its flags select (active alone, inactive alone, both, or 0 for neither), and isUser
\* resolves true iff the count of both lists is greater than 0.
C8_CountSumsSelectedLists ==
    /\ (AnsweredLists /\ call.op = "getUserProductCount")
          => result = Resolved(Count(
                 (IF Truthy(call.a.doCountActive) THEN Len(AnsweredActive) ELSE 0)
                 + (IF Truthy(call.a.doCountInactive) THEN Len(AnsweredInactive) ELSE 0)))
    /\ (AnsweredLists /\ call.op = "isUser")
          => result = Resolved(Bool(Len(AnsweredActive) + Len(AnsweredInactive) > 0))

\* only doCountActive is set, the lists differ in length, and the count is active's
C8_Witness ==
    /\ AnsweredLists
    /\ call.op = "getUserProductCount"
    /\ Truthy(call.a.doCountActive) /\ ~Truthy(call.a.doCountInactive)
    /\ Len(AnsweredActive) = 1 /\ Len(AnsweredInactive) = 2
    /\ result = Resolved(Count(1))

-----------------------------------------------------------------------------
(* C9 *)

EmbedOptionNames == {"remote", "emptyMode", "width", "height"}

EmbedDefault(o) == IF o \in {"remote", "emptyMode"} THEN Bool(FALSE) ELSE Str("100%")

\* C9 as claimed: the GET of retrieveEmbedCodeV2 carries the default of each option the
\* caller left out and the caller's value of each option the caller supplied.
C9_SuppliedOptionsAreSent ==
    (call.op = "retrieveEmbedCodeV2" /\ sent # <<>>)
        => /\ sent[1].method = "GET"
           /\ \A o \in EmbedOptionNames :
                Get(sent[1].qs, o)
                  = IF call.a[o].t = "undefined" THEN EmbedDefault(o) ELSE call.a[o]

\* C9 as amended: the GET of retrieveEmbedCodeV2 carries the default of each option the
\* caller left out or supplied with a falsy value, and the caller's value of each
\* option supplied with a truthy value.
C9_TruthyOptionsAreSent ==
    (call.op = "retrieveEmbedCodeV2" /\ sent # <<>>)
        => /\ sent[1].method = "GET"
           /\ \A o \in EmbedOptionNames :
                /\ HasKey(sent[1].qs, o)
                /\ Get(sent[1].qs, o)
                     = IF Truthy(call.a[o]) THEN call.a[o] ELSE EmbedDefault(o)

\* a GET of retrieveEmbedCodeV2 called with no option carries the four defaults
C9_Witness ==
    /\ call.op = "retrieveEmbedCodeV2"
    /\ sent # <<>>
    /\ \A o \in EmbedOptionNames :
            call.a[o].t = "undefined" /\ Get(sent[1].qs, o) = EmbedDefault(o)

-----------------------------------------------------------------------------
(* C10 *)

\* C10: _buildApiUrl returns host + namespacePath + "/services" + normalizedEndpoint,
\* where normalizedEndpoint is the endpoint with a single leading "/"; the endpoint
\* with and without its leading slash give the same URL.
C10_UrlIsConcatenation ==
    (call.op = "_buildApiUrl" /\ pc = "done")
        => LET e == call.endpoint
               slashed == e # <<>> /\ e[1] = "/"
               normalized == IF slashed THEN e ELSE <<"/">> \o e
               other == IF slashed THEN Tail(e) ELSE <<"/">> \o e
           IN  /\ normalized[1] = "/"
               /\ Len(normalized) > 1 => normalized[2] # "/"
               /\ result.value.tokens
                    = host \o call.servicesPath \o <<"/", "services">> \o normalized
               /\ buildApiUrl(Self, other, call.servicesPath) = result.value.tokens

-----------------------------------------------------------------------------
(* C11 *)

\* the URL of an endpoint on a namespace, for a host without path
UrlOn(servicesPath, name) == host \o servicesPath \o SERVICES \o <<"/", name>>

\* C11: for every configured apiVersion, retrieveEmbedCode dispatches to exactly one of
\* retrieveEmbedCodeV1 (a GET on /xplana-platform-integration without remote, emptyMode,
\* width and height) and retrieveEmbedCodeV2 (a GET on /directdigital with those four
\* parameters): V2 when the version is at or above the V2 threshold, V1 otherwise; it
\* never returns without dispatching to one of them.
C11_DispatchesToV1OrV2 ==
    (call.op = "retrieveEmbedCode" /\ pc # "idle")
        => /\ result.kind \notin {"null", "thrown"}
           /\ Len(sent) = 1
           /\ sent[1].method = "GET"
           /\ IF VersionRank(apiVersion) >= VersionGate(rev, "retrieveEmbedCodeV2")
              THEN /\ sent[1].url = UrlOn(DD_SERVICES_PATH, "retrieveEmbedCode")
                   /\ \A o \in EmbedOptionNames : HasKey(sent[1].qs, o)
              ELSE /\ sent[1].url = UrlOn(XPLANA_SERVICES_PATH, "retrieveEmbedCode")
                   /\ \A o \in EmbedOptionNames : ~HasKey(sent[1].qs, o)

-----------------------------------------------------------------------------
(* C12 *)

\* the identifier the caller passed to a composite: the username for isUser
PassedCustomer == IF call.op = "isUser" THEN call.a.username ELSE call.a.customerId

\* C12: the one GET /retrieveUserProducts sent on behalf of getUserProductCount,
\* isProductFulfilled or isUser carries a customerID query parameter equal to the
\* customer identifier the caller passed to the composite (for isUser, the username);
\* the identifier is never dropped or replaced by undefined on the way.
C12_CustomerIdForwarded ==
    (call.op \in CompositeOps /\ sent # <<>>)
        => /\ Len(sent) = 1
           /\ sent[1].method = "GET"
           /\ sent[1].url = UrlOn(XPLANA_SERVICES_PATH, "retrieveUserProducts")
           /\ HasKey(sent[1].qs, "customerID")
           /\ Get(sent[1].qs, "customerID") = PassedCustomer
           /\ PassedCustomer.t # "undefined"

====
